---- MODULE Spec2Model ----
(***************************************************************************)
(* Model of the full node service of src/bhe/backend.go (type BHEereum):   *)
(* the Start/Stop lifecycle, the mining control surface (StartMining,      *)
(* StopMining, SetBHEerbase, BHEerbase) and the reorg-preservation policy  *)
(* (isLocalBlock, shouldPreserve).                                         *)
(*                                                                         *)
(* The specifications share the variables:                                *)
(*   SpecNew     the constructor New, one action per statement group, on   *)
(*               drawn configurations, store contents and collaborator     *)
(*               failures;                                                 *)
(*   SpecLife    one lifecycle thread stepping through Start and Stop,     *)
(*               one action per statement of the two methods;              *)
(*   SpecMining  concurrent callers of the mining control surface, one     *)
(*               action per atomic step (lock region, atomic store,        *)
(*               collaborator call, go statement);                         *)
(*   SpecAddress, SpecSetAddress  SpecMining restricted to callers of      *)
(*               SetBHEerbase and BHEerbase, and of SetBHEerbase alone;    *)
(*   SpecBloom   SpecLife together with the bloom-retrieval workers and    *)
(*               the sessions they serve, under fair scheduling of the     *)
(*               workers;                                                  *)
(*   SpecPolicy  the pure preservation policy applied to arbitrary blocks. *)
(***************************************************************************)
EXTENDS Integers, Sequences, FiniteSets, TLC

VARIABLES
    \* ---- configuration and collaborators fixed at construction
    engine,            \* s.engine: which consensus engine variant was selected
    lightServ,         \* s.config.LightServ
    lightPeers,        \* s.config.LightPeers
    maxPeers,          \* srvr.MaxPeers of the networking handle given to Start
    lesServer,         \* s.lesServer != nil
    locals,            \* s.config.TxPool.Locals
    wallets,           \* s.accountManager.Wallets(): sequence of account sequences
    \* ---- lifecycle (Start / Stop)
    lifePc,            \* position of the lifecycle thread
    startResult,       \* "none" | "ok" | "err": what Start returned
    enrUpdater,        \* capability-record updater goroutine running
    bloomWorkers,      \* number of bloom-retrieval workers launched
    netRPCService,     \* s.netRPCService assigned
    advMaxPeers,       \* local maxPeers of Start
    pmStarted,         \* s.protocolManager started
    pmMaxPeers,        \* budget handed to protocolManager.Start
    lesStarted,        \* s.lesServer started
    closeBloomHandler, \* "open" | "closed": the channel s.closeBloomHandler
    stopCalls,         \* number of Stop calls made
    stopLog,           \* teardown events of the current Stop call, in order
    stopFailed,        \* teardown steps of the current Stop call that failed
    stopResult,        \* "none" | "nil" | "panic": outcome of the current Stop
    \* ---- mining control surface
    BHEerbase,         \* s.BHEerbase (guarded by s.lock)
    gasPrice,          \* s.gasPrice  (guarded by s.lock)
    poolGasPrice,      \* minimum price of s.txPool (0: never set)
    acceptTxs,         \* s.protocolManager.acceptTxs
    signer,            \* address bound by clique.Authorize (ZeroAddr: none)
    threads,           \* thread count last given to the engine's SetThreads
    mining,            \* s.miner.Mining()
    coinbase,          \* address held by the miner
    starting,          \* launched `go s.miner.Start(eb)` not yet run: seq of eb
    pc,                \* per caller: position in its current call
    op,                \* per caller: the exported method it is in
    arg,               \* per caller: the argument of the call
    eb,                \* per caller: local eb / result of BHEerbase()
    ret,               \* per caller: outcome of its last completed call
    looked,            \* per caller: account-manager lookups of its current / last BHEerbase()
    prevRet,           \* per caller: address the previous resolution had returned (history)
    lastRet,           \* address returned by the latest resolution, NoAddr after SetBHEerbase (history)
    okStarts,          \* a StartMining call launched a loop and returned since the last StopMining (history)
    after,             \* per caller: its StartMining began after such a call had returned (history)
    didInit,           \* per caller: its StartMining entered the not-running branch (history)
    ncalls,            \* number of calls made on the mining surface
    effects,           \* per caller: what its current / last call bound, wrote or launched (history)
    launched,          \* some `go s.miner.Start(eb)` was executed (history)
    \* ---- preservation policy
    query,             \* last shouldPreserve query: block and results
    \* ---- construction (New)
    config,            \* *config as New holds it (New sanitizes it in place)
    config0,           \* *config as it was handed to New (history)
    env,               \* what New finds: the store's version marker, the genesis
                       \* outcome, which collaborator calls fail
    newPc,             \* position of New
    newResult,         \* "none" | "ok" | the error New returned
    newLog,            \* what New opened, built or passed so far, in order
    dbOpen,            \* chainDb was opened
    dbVersion,         \* schema version marker in the store (NoVersion: absent)
    versionWrites,     \* number of rawdb.WriteDatabaseVersion calls
    gpoDefault,        \* gpoParams.Default handed to gasprice.NewOracle
    cacheLimit,        \* cacheLimit handed to NewProtocolManager
    \* ---- bloom retrieval
    workerPc,          \* position of each bloom-retrieval worker goroutine
    workerSess,        \* the session whose queue a worker took from the intake (0: none)
    sessPc,            \* position of each session's Multiplex goroutine
    requests           \* number of request queues offered on s.bloomRequests so far

lifeVars == <<lifePc, startResult, enrUpdater, bloomWorkers, netRPCService, advMaxPeers,
              pmStarted, pmMaxPeers, lesStarted, closeBloomHandler, stopCalls, stopLog,
              stopFailed, stopResult>>

newVars == <<config, config0, env, newPc, newResult, newLog, dbOpen, dbVersion,
             versionWrites, gpoDefault, cacheLimit>>

bloomVars == <<workerPc, workerSess, sessPc, requests>>

otherCfg == <<lightServ, lightPeers, maxPeers, lesServer, locals, wallets, bloomVars>>

cfgVars == <<engine, otherCfg, newVars>>

mineVars == <<BHEerbase, gasPrice, poolGasPrice, acceptTxs, signer, threads, mining,
              coinbase, starting, pc, op, arg, eb, ret, looked, prevRet, lastRet,
              okStarts, after, didInit, ncalls, effects, launched>>

vars == <<cfgVars, lifeVars, mineVars, query>>

----------------------------------------------------------------------------
\* Bounds of the model.

\* Largest peer count / light-peer reservation drawn for a configuration.
MaxPeerBound == 3
\* Number of bloom-retrieval workers startBloomHandlers launches.
BloomServiceThreads == 2
\* Number of Stop calls the lifecycle thread may make.
MaxStops == 2
\* Number of calls made on the mining control surface.
MaxCalls == 3
\* Largest non-zero address.
MaxAddr == 2
\* Largest cache budget (clean, dirty, snapshot) drawn for a configuration.
MaxCache == 3
\* Largest gas-price floor drawn for a configuration.
MaxPrice == 1
\* Number of request queues the sessions offer to the bloom workers.
MaxRequests == 1

----------------------------------------------------------------------------
\* Values.

ZeroAddr == 0
Addrs == 1..MaxAddr
AnyAddr == 0..MaxAddr
\* "no address recorded" in the history variables; never a value of the program.
NoAddr == 0 - 1

EngineKinds == {"clique", "BHEash", "fake", "test", "shared"}

Procs == {1, 2}

IsPrefix(s, t) == Len(s) <= Len(t) /\ SubSeq(t, 1, Len(s)) = s

----------------------------------------------------------------------------
\* Lifecycle: Start.  One action per statement of BHEereum.Start.

\* The host calls Start (at most once, on a service that was not stopped).
CallStart ==
    /\ lifePc = "idle" /\ startResult = "none" /\ stopCalls = 0
    /\ lifePc' = "start_entry"
    /\ UNCHANGED <<startResult, enrUpdater, bloomWorkers, netRPCService, advMaxPeers,
                   pmStarted, pmMaxPeers, lesStarted, closeBloomHandler, stopCalls,
                   stopLog, stopFailed, stopResult>>
    /\ UNCHANGED <<cfgVars, mineVars, query>>

\* s.startBHEEntryUpdate(srvr.LocalNode())
Start_EntryUpdate ==
    /\ lifePc = "start_entry"
    /\ enrUpdater' = TRUE
    /\ lifePc' = "start_bloom"
    /\ UNCHANGED <<startResult, bloomWorkers, netRPCService, advMaxPeers,
                   pmStarted, pmMaxPeers, lesStarted, closeBloomHandler, stopCalls,
                   stopLog, stopFailed, stopResult>>
    /\ UNCHANGED <<cfgVars, mineVars, query>>

\* s.startBloomHandlers(params.BloomBitsBlocks)
Start_BloomHandlers ==
    /\ lifePc = "start_bloom"
    /\ bloomWorkers' = BloomServiceThreads
    /\ lifePc' = "start_rpc"
    /\ UNCHANGED <<startResult, enrUpdater, netRPCService, advMaxPeers,
                   pmStarted, pmMaxPeers, lesStarted, closeBloomHandler, stopCalls,
                   stopLog, stopFailed, stopResult>>
    /\ UNCHANGED <<cfgVars, mineVars, query>>

\* s.netRPCService = BHEapi.NewPublicNetAPI(srvr, s.NetVersion())
Start_NetRPC ==
    /\ lifePc = "start_rpc"
    /\ netRPCService' = TRUE
    /\ lifePc' = "start_peers"
    /\ UNCHANGED <<startResult, enrUpdater, bloomWorkers, advMaxPeers,
                   pmStarted, pmMaxPeers, lesStarted, closeBloomHandler, stopCalls,
                   stopLog, stopFailed, stopResult>>
    /\ UNCHANGED <<cfgVars, mineVars, query>>

\* Variant of LightPeersRejected comparing with > where the code has >=.
LightPeersRejected_Strict == lightPeers > maxPeers

\* The light-peer reservation is rejected: s.config.LightPeers >= srvr.MaxPeers.
LightPeersRejected == lightPeers >= maxPeers

\* maxPeers := srvr.MaxPeers; if s.config.LightServ > 0 { check; maxPeers -= LightPeers }
Start_MaxPeers ==
    /\ lifePc = "start_peers"
    /\ IF lightServ > 0 /\ LightPeersRejected
         THEN /\ startResult' = "err"
              /\ lifePc' = "idle"
              /\ UNCHANGED advMaxPeers
         ELSE /\ advMaxPeers' = IF lightServ > 0 THEN maxPeers - lightPeers ELSE maxPeers
              /\ lifePc' = "start_pm"
              /\ UNCHANGED startResult
    /\ UNCHANGED <<enrUpdater, bloomWorkers, netRPCService,
                   pmStarted, pmMaxPeers, lesStarted, closeBloomHandler, stopCalls,
                   stopLog, stopFailed, stopResult>>
    /\ UNCHANGED <<cfgVars, mineVars, query>>

\* s.protocolManager.Start(maxPeers)
Start_ProtocolManager ==
    /\ lifePc = "start_pm"
    /\ pmStarted' = TRUE
    /\ pmMaxPeers' = advMaxPeers
    /\ lifePc' = "start_les"
    /\ UNCHANGED <<startResult, enrUpdater, bloomWorkers, netRPCService, advMaxPeers,
                   lesStarted, closeBloomHandler, stopCalls,
                   stopLog, stopFailed, stopResult>>
    /\ UNCHANGED <<cfgVars, mineVars, query>>

\* if s.lesServer != nil { s.lesServer.Start(srvr) }; return nil
Start_LesServer ==
    /\ lifePc = "start_les"
    /\ lesStarted' = lesServer
    /\ startResult' = "ok"
    /\ lifePc' = "idle"
    /\ UNCHANGED <<enrUpdater, bloomWorkers, netRPCService, advMaxPeers,
                   pmStarted, pmMaxPeers, closeBloomHandler, stopCalls,
                   stopLog, stopFailed, stopResult>>
    /\ UNCHANGED <<cfgVars, mineVars, query>>

----------------------------------------------------------------------------
\* Lifecycle: Stop.  One action per statement of BHEereum.Stop.  A teardown
\* step may fail (fail = TRUE): the collaborator returns an error or logs one.

\* The host calls Stop.
CallStop ==
    /\ lifePc = "idle" /\ stopCalls < MaxStops
    /\ stopCalls' = stopCalls + 1
    /\ stopLog' = <<>>
    /\ stopFailed' = {}
    /\ stopResult' = "none"
    /\ lifePc' = "stop_pm"
    /\ UNCHANGED <<startResult, enrUpdater, bloomWorkers, netRPCService, advMaxPeers,
                   pmStarted, pmMaxPeers, lesStarted, closeBloomHandler>>
    /\ UNCHANGED <<cfgVars, mineVars, query>>

\* Variant of StopStep that returns the failure of a step to the caller of Stop
\* instead of dropping it.
StopStep_Propagate(name, fail, next) ==
    /\ stopLog' = Append(stopLog, name)
    /\ stopFailed' = IF fail THEN stopFailed \cup {name} ELSE stopFailed
    /\ lifePc' = IF fail THEN "idle" ELSE next
    /\ stopResult' = IF fail THEN "err" ELSE stopResult
    /\ UNCHANGED stopCalls

\* What one teardown statement does to the Stop bookkeeping: the step is
\* attempted, its failure (if any) is dropped and control moves to the next
\* statement.
StopStep(name, fail, next) ==
    /\ stopLog' = Append(stopLog, name)
    /\ stopFailed' = IF fail THEN stopFailed \cup {name} ELSE stopFailed
    /\ lifePc' = next
    /\ UNCHANGED <<stopResult, stopCalls>>

\* Variant of Stop_protocolManager that waits for the acknowledgement of a
\* protocol layer that was started.
Stop_protocolManager_NeedsStart ==
    /\ lifePc = "stop_pm"
    /\ pmStarted
    /\ \E fail \in BOOLEAN : StopStep("protocolManager", fail, "stop_les")
    /\ pmStarted' = FALSE
    /\ UNCHANGED <<startResult, enrUpdater, bloomWorkers, netRPCService, advMaxPeers,
                   pmMaxPeers, lesStarted, closeBloomHandler>>
    /\ UNCHANGED <<cfgVars, mineVars, query>>

\* s.protocolManager.Stop()
Stop_protocolManager ==
    /\ lifePc = "stop_pm"
    /\ \E fail \in BOOLEAN : StopStep("protocolManager", fail, "stop_les")
    /\ pmStarted' = FALSE
    /\ UNCHANGED <<startResult, enrUpdater, bloomWorkers, netRPCService, advMaxPeers,
                   pmMaxPeers, lesStarted, closeBloomHandler>>
    /\ UNCHANGED <<cfgVars, mineVars, query>>

\* if s.lesServer != nil { s.lesServer.Stop() }
Stop_lesServer ==
    /\ lifePc = "stop_les"
    /\ IF lesServer
         THEN /\ \E fail \in BOOLEAN : StopStep("lesServer", fail, "stop_indexer")
              /\ lesStarted' = FALSE
         ELSE /\ lifePc' = "stop_indexer"
              /\ UNCHANGED <<stopLog, stopFailed, stopResult, stopCalls, lesStarted>>
    /\ UNCHANGED <<startResult, enrUpdater, bloomWorkers, netRPCService, advMaxPeers,
                   pmStarted, pmMaxPeers, closeBloomHandler>>
    /\ UNCHANGED <<cfgVars, mineVars, query>>

\* s.bloomIndexer.Close()   (its error is discarded)
Stop_bloomIndexer ==
    /\ lifePc = "stop_indexer"
    /\ \E fail \in BOOLEAN : StopStep("bloomIndexer", fail, "stop_close")
    /\ UNCHANGED <<startResult, enrUpdater, bloomWorkers, netRPCService, advMaxPeers,
                   pmStarted, pmMaxPeers, lesStarted, closeBloomHandler>>
    /\ UNCHANGED <<cfgVars, mineVars, query>>

\* Variant of Stop_closeBloomHandler that goes on without closing the channel.
Stop_closeBloomHandler_NoSignal ==
    /\ lifePc = "stop_close"
    /\ StopStep("closeBloomHandler", FALSE, "stop_pool")
    /\ UNCHANGED <<startResult, enrUpdater, bloomWorkers, netRPCService, advMaxPeers,
                   pmStarted, pmMaxPeers, lesStarted, closeBloomHandler>>
    /\ UNCHANGED <<cfgVars, mineVars, query>>

\* close(s.closeBloomHandler): closing a closed channel panics.
Stop_closeBloomHandler ==
    /\ lifePc = "stop_close"
    /\ IF closeBloomHandler = "closed"
         THEN /\ stopResult' = "panic"
              /\ lifePc' = "crashed"
              /\ UNCHANGED <<stopLog, stopFailed, stopCalls, closeBloomHandler>>
         ELSE /\ closeBloomHandler' = "closed"
              /\ StopStep("closeBloomHandler", FALSE, "stop_pool")
    /\ UNCHANGED <<startResult, enrUpdater, bloomWorkers, netRPCService, advMaxPeers,
                   pmStarted, pmMaxPeers, lesStarted>>
    /\ UNCHANGED <<cfgVars, mineVars, query>>

\* A teardown statement that touches no modelled lifecycle field.
StopPlain(at, name, next) ==
    /\ lifePc = at
    /\ \E fail \in BOOLEAN : StopStep(name, fail, next)
    /\ UNCHANGED <<startResult, enrUpdater, bloomWorkers, netRPCService, advMaxPeers,
                   pmStarted, pmMaxPeers, lesStarted, closeBloomHandler>>
    /\ UNCHANGED <<cfgVars, query>>

\* Variant of Stop_txPool that closes the store where the pool is to be stopped.
Stop_txPool_ClosesStore ==
    StopPlain("stop_pool", "chainDb", "stop_miner") /\ UNCHANGED mineVars

\* s.txPool.Stop()
Stop_txPool == StopPlain("stop_pool", "txPool", "stop_miner") /\ UNCHANGED mineVars

\* s.miner.Stop()
Stop_miner ==
    /\ StopPlain("stop_miner", "miner", "stop_chain")
    /\ mining' = FALSE
    /\ UNCHANGED <<BHEerbase, gasPrice, poolGasPrice, acceptTxs, signer, threads,
                   coinbase, starting, pc, op, arg, eb, ret, looked, prevRet, lastRet,
                   okStarts, after, didInit, ncalls, effects, launched>>

\* s.blockchain.Stop()
Stop_blockchain == StopPlain("stop_chain", "blockchain", "stop_engine") /\ UNCHANGED mineVars

\* s.engine.Close()   (its error is discarded)
Stop_engine == StopPlain("stop_engine", "engine", "stop_db") /\ UNCHANGED mineVars

\* s.chainDb.Close()   (its error is discarded)
Stop_chainDb == StopPlain("stop_db", "chainDb", "stop_mux") /\ UNCHANGED mineVars

\* s.eventMux.Stop()
Stop_eventMux == StopPlain("stop_mux", "eventMux", "stop_ret") /\ UNCHANGED mineVars

\* return nil
Stop_return ==
    /\ lifePc = "stop_ret"
    /\ stopResult' = "nil"
    /\ lifePc' = "idle"
    /\ UNCHANGED <<startResult, enrUpdater, bloomWorkers, netRPCService, advMaxPeers,
                   pmStarted, pmMaxPeers, lesStarted, closeBloomHandler, stopCalls,
                   stopLog, stopFailed>>
    /\ UNCHANGED <<cfgVars, mineVars, query>>

----------------------------------------------------------------------------
\* Engine capabilities and account manager.

\* s.engine.(threaded): the engine has a SetThreads method (the proof-of-work
\* variants; the authority-round engine has none).
Threaded(e) == e # "clique"

\* s.engine.(*clique.Clique)
IsClique(e) == e = "clique"

\* The thread count the engine holds after construction: the production
\* proof-of-work engine is built with SetThreads(-1).
InitThreads(e) == IF e = "BHEash" THEN 0 - 1 ELSE 0

\* s.accountManager.Find(accounts.Account{Address: a}) finds a wallet.
HasWallet(a) == \E i \in 1..Len(wallets) : \E j \in 1..Len(wallets[i]) : wallets[i][j] = a

\* s.IsMining(): s.miner.Mining()
IsMining == mining

\* Account-manager contents drawn for a service: no wallet, one wallet with one
\* account, a wallet with two accounts, an empty first wallet before a full one.
WalletChoices == {<< >>, << <<1>> >>, << <<2, 1>> >>, << << >>, <<2>> >>}

----------------------------------------------------------------------------
\* Mining control surface.  Each caller p runs one exported method at a time;
\* every action is one atomic step of it.

lifeAndCfg == <<cfgVars, lifeVars, query>>

\* Return from the current call of p with outcome r.
Return(p, r) ==
    /\ pc' = [pc EXCEPT ![p] = "idle"]
    /\ ret' = [ret EXCEPT ![p] = r]

\* Where BHEerbase() returns to with a resolved address.
ResolvedTo(p) ==
    IF op[p] = "StartMining"
      THEN /\ pc' = [pc EXCEPT ![p] = "sm_auth"]
           /\ UNCHANGED ret
      ELSE Return(p, "ok")

\* Where BHEerbase() returns to with its "must be explicitly specified" error:
\* StartMining wraps it into "BHEerbase missing" and returns.
UnresolvedTo(p) ==
    IF op[p] = "StartMining" THEN Return(p, "err_BHEerbase") ELSE Return(p, "err")

\* A caller enters an exported method.
Enter(p, name, a, first) ==
    /\ pc[p] = "idle" /\ ncalls < MaxCalls
    /\ ncalls' = ncalls + 1
    /\ op' = [op EXCEPT ![p] = name]
    /\ arg' = [arg EXCEPT ![p] = a]
    /\ pc' = [pc EXCEPT ![p] = first]
    /\ ret' = [ret EXCEPT ![p] = "none"]
    /\ eb' = [eb EXCEPT ![p] = ZeroAddr]
    /\ looked' = [looked EXCEPT ![p] = 0]
    /\ prevRet' = [prevRet EXCEPT ![p] = NoAddr]
    /\ didInit' = [didInit EXCEPT ![p] = FALSE]
    /\ effects' = [effects EXCEPT ![p] = {}]
    /\ UNCHANGED launched

\* ---- StartMining(threads)

CallStartMining(p) ==
    /\ \E n \in 0..1 : Enter(p, "StartMining", n, "sm_threads")
    /\ after' = [after EXCEPT ![p] = okStarts]
    /\ UNCHANGED <<BHEerbase, gasPrice, poolGasPrice, acceptTxs, signer, threads, mining,
                   coinbase, starting, lastRet, okStarts>>
    /\ UNCHANGED lifeAndCfg

\* Variant of SM_SetThreads that hands a zero thread count to the engine as it is.
SM_SetThreads_KeepZero(p) ==
    /\ pc[p] = "sm_threads"
    /\ threads' = IF Threaded(engine) THEN arg[p] ELSE threads
    /\ pc' = [pc EXCEPT ![p] = "sm_check"]
    /\ UNCHANGED <<BHEerbase, gasPrice, poolGasPrice, acceptTxs, signer, mining,
                   coinbase, starting, op, arg, eb, ret, looked, prevRet, lastRet,
                   okStarts, after, didInit, ncalls>>
    /\ UNCHANGED <<effects, launched>>
    /\ UNCHANGED lifeAndCfg

\* if th, ok := s.engine.(threaded); ok { if threads == 0 { threads = -1 }; th.SetThreads(threads) }
SM_SetThreads(p) ==
    /\ pc[p] = "sm_threads"
    /\ threads' = IF Threaded(engine)
                    THEN (IF arg[p] = 0 THEN 0 - 1 ELSE arg[p])
                    ELSE threads
    /\ pc' = [pc EXCEPT ![p] = "sm_check"]
    /\ UNCHANGED <<BHEerbase, gasPrice, poolGasPrice, acceptTxs, signer, mining,
                   coinbase, starting, op, arg, eb, ret, looked, prevRet, lastRet,
                   okStarts, after, didInit, ncalls>>
    /\ UNCHANGED <<effects, launched>>
    /\ UNCHANGED lifeAndCfg

\* if !s.IsMining() { ... } return nil
SM_CheckMining(p) ==
    /\ pc[p] = "sm_check"
    /\ IF ~IsMining
         THEN /\ pc' = [pc EXCEPT ![p] = "sm_price"]
              /\ didInit' = [didInit EXCEPT ![p] = TRUE]
              /\ UNCHANGED ret
         ELSE /\ Return(p, "nil")
              /\ UNCHANGED didInit
    /\ UNCHANGED <<BHEerbase, gasPrice, poolGasPrice, acceptTxs, signer, threads, mining,
                   coinbase, starting, op, arg, eb, looked, prevRet, lastRet,
                   okStarts, after, ncalls>>
    /\ UNCHANGED <<effects, launched>>
    /\ UNCHANGED lifeAndCfg

\* s.lock.RLock(); price := s.gasPrice; s.lock.RUnlock(); s.txPool.SetGasPrice(price);
\* then the call eb, err := s.BHEerbase()
SM_SetGasPrice(p) ==
    /\ pc[p] = "sm_price"
    /\ poolGasPrice' = gasPrice
    /\ pc' = [pc EXCEPT ![p] = "eb_read"]
    /\ UNCHANGED <<BHEerbase, gasPrice, acceptTxs, signer, threads, mining,
                   coinbase, starting, op, arg, eb, ret, looked, prevRet, lastRet,
                   okStarts, after, didInit, ncalls>>
    /\ UNCHANGED <<effects, launched>>
    /\ UNCHANGED lifeAndCfg

\* Variant of SM_Authorize that binds the signer before it looks for the wallet.
SM_Authorize_BindFirst(p) ==
    /\ pc[p] = "sm_auth"
    /\ IF IsClique(engine)
         THEN /\ signer' = eb[p]
              /\ effects' = [effects EXCEPT ![p] = @ \cup {"signer"}]
              /\ IF HasWallet(eb[p])
                   THEN /\ pc' = [pc EXCEPT ![p] = "sm_accept"]
                        /\ UNCHANGED ret
                   ELSE Return(p, "err_signer")
         ELSE /\ pc' = [pc EXCEPT ![p] = "sm_accept"]
              /\ UNCHANGED <<signer, ret, effects>>
    /\ UNCHANGED launched
    /\ UNCHANGED <<BHEerbase, gasPrice, poolGasPrice, acceptTxs, threads, mining,
                   coinbase, starting, op, arg, eb, looked, prevRet, lastRet,
                   okStarts, after, didInit, ncalls>>
    /\ UNCHANGED lifeAndCfg

\* if clique, ok := s.engine.(*clique.Clique); ok { wallet, err := Find(eb);
\*   if wallet == nil || err != nil { return "signer missing" }; clique.Authorize(eb, ...) }
SM_Authorize(p) ==
    /\ pc[p] = "sm_auth"
    /\ IF IsClique(engine)
         THEN IF HasWallet(eb[p])
                THEN /\ signer' = eb[p]
                     /\ effects' = [effects EXCEPT ![p] = @ \cup {"signer"}]
                     /\ pc' = [pc EXCEPT ![p] = "sm_accept"]
                     /\ UNCHANGED ret
                ELSE /\ Return(p, "err_signer")
                     /\ UNCHANGED <<signer, effects>>
         ELSE /\ pc' = [pc EXCEPT ![p] = "sm_accept"]
              /\ UNCHANGED <<signer, ret, effects>>
    /\ UNCHANGED launched
    /\ UNCHANGED <<BHEerbase, gasPrice, poolGasPrice, acceptTxs, threads, mining,
                   coinbase, starting, op, arg, eb, looked, prevRet, lastRet,
                   okStarts, after, didInit, ncalls>>
    /\ UNCHANGED lifeAndCfg

\* Variant of SM_AcceptTxs that goes on to the launch without storing the flag.
SM_AcceptTxs_Skip(p) ==
    /\ pc[p] = "sm_accept"
    /\ pc' = [pc EXCEPT ![p] = "sm_go"]
    /\ UNCHANGED <<effects, launched>>
    /\ UNCHANGED <<BHEerbase, gasPrice, poolGasPrice, acceptTxs, signer, threads, mining,
                   coinbase, starting, op, arg, eb, ret, looked, prevRet, lastRet,
                   okStarts, after, didInit, ncalls>>
    /\ UNCHANGED lifeAndCfg

\* atomic.StoreUint32(&s.protocolManager.acceptTxs, 1)
SM_AcceptTxs(p) ==
    /\ pc[p] = "sm_accept"
    /\ acceptTxs' = 1
    /\ effects' = [effects EXCEPT ![p] = @ \cup {"acceptTxs"}]
    /\ pc' = [pc EXCEPT ![p] = "sm_go"]
    /\ UNCHANGED launched
    /\ UNCHANGED <<BHEerbase, gasPrice, poolGasPrice, signer, threads, mining,
                   coinbase, starting, op, arg, eb, ret, looked, prevRet, lastRet,
                   okStarts, after, didInit, ncalls>>
    /\ UNCHANGED lifeAndCfg

\* go s.miner.Start(eb); return nil
SM_Go(p) ==
    /\ pc[p] = "sm_go"
    /\ starting' = Append(starting, eb[p])
    /\ effects' = [effects EXCEPT ![p] = @ \cup {"loop"}]
    /\ launched' = TRUE
    /\ okStarts' = TRUE
    /\ Return(p, "nil")
    /\ UNCHANGED <<BHEerbase, gasPrice, poolGasPrice, acceptTxs, signer, threads, mining,
                   coinbase, op, arg, eb, looked, prevRet, lastRet,
                   after, didInit, ncalls>>
    /\ UNCHANGED lifeAndCfg

\* The sequence q without its i-th element.
RemoveAt(q, i) == SubSeq(q, 1, i - 1) \o SubSeq(q, i + 1, Len(q))

\* The goroutine of `go s.miner.Start(eb)` is scheduled and runs miner.Start(eb):
\* the miner takes the address and is mining from then on.
MinerStart ==
    /\ \E i \in 1..Len(starting) :
          /\ coinbase' = starting[i]
          /\ starting' = RemoveAt(starting, i)
    /\ mining' = TRUE
    /\ UNCHANGED <<BHEerbase, gasPrice, poolGasPrice, acceptTxs, signer, threads,
                   pc, op, arg, eb, ret, looked, prevRet, lastRet,
                   okStarts, after, didInit, ncalls>>
    /\ UNCHANGED <<effects, launched>>
    /\ UNCHANGED lifeAndCfg

\* ---- BHEerbase()

CallBHEerbase(p) ==
    /\ Enter(p, "BHEerbase", 0, "eb_read")
    /\ UNCHANGED <<BHEerbase, gasPrice, poolGasPrice, acceptTxs, signer, threads, mining,
                   coinbase, starting, lastRet, okStarts, after>>
    /\ UNCHANGED lifeAndCfg

\* s.lock.RLock(); BHEerbase := s.BHEerbase; s.lock.RUnlock();
\* if BHEerbase != (common.Address{}) { return BHEerbase, nil }
EB_Read(p) ==
    /\ pc[p] = "eb_read"
    /\ prevRet' = [prevRet EXCEPT ![p] = lastRet]
    /\ looked' = [looked EXCEPT ![p] = 0]
    /\ IF BHEerbase # ZeroAddr
         THEN /\ eb' = [eb EXCEPT ![p] = BHEerbase]
              /\ lastRet' = BHEerbase
              /\ ResolvedTo(p)
         ELSE /\ pc' = [pc EXCEPT ![p] = "eb_lookup"]
              /\ UNCHANGED <<eb, lastRet, ret>>
    /\ UNCHANGED <<BHEerbase, gasPrice, poolGasPrice, acceptTxs, signer, threads, mining,
                   coinbase, starting, op, arg, okStarts, after, didInit, ncalls>>
    /\ UNCHANGED <<effects, launched>>
    /\ UNCHANGED lifeAndCfg

\* if wallets := s.AccountManager().Wallets(); len(wallets) > 0 {
\*   if accounts := wallets[0].Accounts(); len(accounts) > 0 { BHEerbase := accounts[0].Address ...
\* return common.Address{}, fmt.Errorf("BHEerbase must be explicitly specified")
EB_Lookup(p) ==
    /\ pc[p] = "eb_lookup"
    /\ looked' = [looked EXCEPT ![p] = looked[p] + 1]
    /\ IF Len(wallets) > 0 /\ Len(wallets[1]) > 0
         THEN /\ eb' = [eb EXCEPT ![p] = wallets[1][1]]
              /\ pc' = [pc EXCEPT ![p] = "eb_write"]
              /\ UNCHANGED ret
         ELSE /\ UnresolvedTo(p)
              /\ UNCHANGED eb
    /\ UNCHANGED <<BHEerbase, gasPrice, poolGasPrice, acceptTxs, signer, threads, mining,
                   coinbase, starting, op, arg, prevRet, lastRet,
                   okStarts, after, didInit, ncalls>>
    /\ UNCHANGED <<effects, launched>>
    /\ UNCHANGED lifeAndCfg

\* Variant of EB_Write that returns the resolved address without storing it.
EB_Write_NoCache(p) ==
    /\ pc[p] = "eb_write"
    /\ lastRet' = eb[p]
    /\ ResolvedTo(p)
    /\ UNCHANGED <<BHEerbase, gasPrice, poolGasPrice, acceptTxs, signer, threads, mining,
                   coinbase, starting, op, arg, eb, looked, prevRet,
                   okStarts, after, didInit, ncalls>>
    /\ UNCHANGED <<effects, launched>>
    /\ UNCHANGED lifeAndCfg

\* s.lock.Lock(); s.BHEerbase = BHEerbase; s.lock.Unlock(); return BHEerbase, nil
EB_Write(p) ==
    /\ pc[p] = "eb_write"
    /\ BHEerbase' = eb[p]
    /\ lastRet' = eb[p]
    /\ ResolvedTo(p)
    /\ UNCHANGED <<gasPrice, poolGasPrice, acceptTxs, signer, threads, mining,
                   coinbase, starting, op, arg, eb, looked, prevRet,
                   okStarts, after, didInit, ncalls>>
    /\ UNCHANGED <<effects, launched>>
    /\ UNCHANGED lifeAndCfg

\* ---- StopMining()

CallStopMining(p) ==
    /\ Enter(p, "StopMining", 0, "st_threads")
    /\ okStarts' = FALSE
    /\ after' = [q \in Procs |-> FALSE]
    /\ UNCHANGED <<BHEerbase, gasPrice, poolGasPrice, acceptTxs, signer, threads, mining,
                   coinbase, starting, lastRet>>
    /\ UNCHANGED lifeAndCfg

\* if th, ok := s.engine.(threaded); ok { th.SetThreads(-1) }
ST_SetThreads(p) ==
    /\ pc[p] = "st_threads"
    /\ threads' = IF Threaded(engine) THEN 0 - 1 ELSE threads
    /\ pc' = [pc EXCEPT ![p] = "st_stop"]
    /\ UNCHANGED <<BHEerbase, gasPrice, poolGasPrice, acceptTxs, signer, mining,
                   coinbase, starting, op, arg, eb, ret, looked, prevRet, lastRet,
                   okStarts, after, didInit, ncalls>>
    /\ UNCHANGED <<effects, launched>>
    /\ UNCHANGED lifeAndCfg

\* s.miner.Stop()
ST_MinerStop(p) ==
    /\ pc[p] = "st_stop"
    /\ mining' = FALSE
    /\ Return(p, "nil")
    /\ UNCHANGED <<BHEerbase, gasPrice, poolGasPrice, acceptTxs, signer, threads,
                   coinbase, starting, op, arg, eb, looked, prevRet, lastRet,
                   okStarts, after, didInit, ncalls>>
    /\ UNCHANGED <<effects, launched>>
    /\ UNCHANGED lifeAndCfg

\* ---- SetBHEerbase(a)

CallSetBHEerbase(p) ==
    /\ \E a \in AnyAddr : Enter(p, "SetBHEerbase", a, "se_write")
    /\ UNCHANGED <<BHEerbase, gasPrice, poolGasPrice, acceptTxs, signer, threads, mining,
                   coinbase, starting, lastRet, okStarts, after>>
    /\ UNCHANGED lifeAndCfg

\* s.lock.Lock(); s.BHEerbase = BHEerbase; s.lock.Unlock()
SE_Write(p) ==
    /\ pc[p] = "se_write"
    /\ BHEerbase' = arg[p]
    /\ lastRet' = NoAddr
    /\ pc' = [pc EXCEPT ![p] = "se_miner"]
    /\ UNCHANGED <<gasPrice, poolGasPrice, acceptTxs, signer, threads, mining,
                   coinbase, starting, op, arg, eb, ret, looked, prevRet,
                   okStarts, after, didInit, ncalls>>
    /\ UNCHANGED <<effects, launched>>
    /\ UNCHANGED lifeAndCfg

\* s.miner.SetBHEerbase(BHEerbase)
SE_Miner(p) ==
    /\ pc[p] = "se_miner"
    /\ coinbase' = arg[p]
    /\ Return(p, "nil")
    /\ UNCHANGED <<BHEerbase, gasPrice, poolGasPrice, acceptTxs, signer, threads, mining,
                   starting, op, arg, eb, looked, prevRet, lastRet,
                   okStarts, after, didInit, ncalls>>
    /\ UNCHANGED <<effects, launched>>
    /\ UNCHANGED lifeAndCfg

----------------------------------------------------------------------------
\* Reorg-preservation policy.  A block is what the engine's Author lookup
\* yields for its header: the recovered author, or an error.

Blocks == [author : AnyAddr, err : BOOLEAN]

\* Variant of isLocalBlock that compares the author although the lookup failed.
isLocalBlock_IgnoreErr(b) ==
    IF b.author = BHEerbase THEN TRUE
    ELSE b.author \in locals

\* author, err := s.engine.Author(block.Header()); if err != nil { return false }
\* if author == s.BHEerbase { return true }
\* for _, account := range s.config.TxPool.Locals { if account == author { return true } }
\* return false
isLocalBlock(b) ==
    IF b.err THEN FALSE
    ELSE IF b.author = BHEerbase THEN TRUE
    ELSE b.author \in locals

\* Variant of shouldPreserve without the authority-round exception.
shouldPreserve_NoCliqueCheck(b) == isLocalBlock(b)

\* if _, ok := s.engine.(*clique.Clique); ok { return false }; return s.isLocalBlock(block)
shouldPreserve(b) ==
    IF IsClique(engine) THEN FALSE ELSE isLocalBlock(b)

\* The reorg algorithm of the chain consults the callback for a block.
ShouldPreserveQuery ==
    /\ \E b \in Blocks :
          query' = [asked |-> TRUE, block |-> b,
                    local |-> isLocalBlock(b), preserve |-> shouldPreserve(b)]
    /\ UNCHANGED <<cfgVars, lifeVars, mineVars>>

----------------------------------------------------------------------------
\* Construction: New.  One action per statement group of New, in source
\* order.  What the collaborators answer (store, genesis, chain, protocol
\* layer, discovery) is given by env.

\* core.BlockChainVersion: the schema version this build expects.
BlockChainVersion == 2

\* DefaultConfig.Miner.GasPrice: the documented default price floor.
DefaultGasPrice == 2

\* "no version marker in the store": rawdb.ReadDatabaseVersion returns nil.
NoVersion == 0 - 1

\* A *big.Int that may be nil.
NilBig == [set |-> FALSE, val |-> 0]
Big(v) == [set |-> TRUE, val |-> v]

SyncModes == {"full", "fast", "light", "invalid"}

\* config.SyncMode.IsValid()
IsValid(m) == m \in {"full", "fast", "light"}

PowModes == {"ModeNormal", "ModeShared", "ModeTest", "ModeFake", "ModeFullFake", "unknown"}

DiskVersions == {NoVersion} \cup (0..(BlockChainVersion + 1))

\* if chainConfig.Clique != nil { return clique.New(...) }
\* switch config.PowMode { case ModeFake: ... case ModeTest: ... case ModeShared: ...
\*   default: engine := BHEash.New(...); engine.SetThreads(-1); return engine }
CreateConsensusEngine(clique, mode) ==
    IF clique THEN "clique"
    ELSE CASE mode = "ModeFake" -> "fake"
           [] mode = "ModeTest" -> "test"
           [] mode = "ModeShared" -> "shared"
           [] OTHER -> "BHEash"

\* The fields New leaves alone in every step but the one that fills the struct.
newFrame == <<otherCfg, lifeVars, query>>

\* return nil, err
NewFail(r) ==
    /\ newResult' = r
    /\ newPc' = "done"

\* Variant of New_CheckSyncMode that accepts the light sync mode.
New_CheckSyncMode_AllowLight ==
    /\ newPc = "new_sync"
    /\ IF ~IsValid(config.SyncMode)
         THEN NewFail("err_syncmode")
         ELSE /\ newPc' = "new_price"
              /\ UNCHANGED newResult
    /\ UNCHANGED <<config, config0, env, newLog, dbOpen, dbVersion, versionWrites,
                   gpoDefault, cacheLimit>>
    /\ UNCHANGED <<engine, mineVars, newFrame>>

\* if config.SyncMode == downloader.LightSync { return error }
\* if !config.SyncMode.IsValid() { return error }
New_CheckSyncMode ==
    /\ newPc = "new_sync"
    /\ IF config.SyncMode = "light"
         THEN NewFail("err_light")
         ELSE IF ~IsValid(config.SyncMode)
                THEN NewFail("err_syncmode")
                ELSE /\ newPc' = "new_price"
                     /\ UNCHANGED newResult
    /\ UNCHANGED <<config, config0, env, newLog, dbOpen, dbVersion, versionWrites,
                   gpoDefault, cacheLimit>>
    /\ UNCHANGED <<engine, mineVars, newFrame>>

\* Variant of SanitizedGasPrice that keeps a zero floor.
SanitizedGasPrice_KeepZero(g) ==
    IF ~g.set \/ g.val < 0 THEN Big(DefaultGasPrice) ELSE g

\* if config.Miner.GasPrice == nil || config.Miner.GasPrice.Cmp(common.Big0) <= 0 {
\*   config.Miner.GasPrice = new(big.Int).Set(DefaultConfig.Miner.GasPrice) }
SanitizedGasPrice(g) ==
    IF ~g.set \/ g.val <= 0 THEN Big(DefaultGasPrice) ELSE g

New_SanitizeGasPrice ==
    /\ newPc = "new_price"
    /\ config' = [config EXCEPT !.MinerGasPrice = SanitizedGasPrice(@)]
    /\ newPc' = "new_cache"
    /\ UNCHANGED <<config0, env, newResult, newLog, dbOpen, dbVersion, versionWrites,
                   gpoDefault, cacheLimit>>
    /\ UNCHANGED <<engine, mineVars, newFrame>>

\* Variant of RedistributedCaches that redistributes whether or not pruning is disabled.
RedistributedCaches_AlsoPruning(c) ==
    IF c.TrieDirtyCache > 0
      THEN IF c.SnapshotCache > 0
             THEN [c EXCEPT !.TrieCleanCache = @ + ((c.TrieDirtyCache * 3) \div 5),
                            !.SnapshotCache = @ + ((c.TrieDirtyCache * 2) \div 5),
                            !.TrieDirtyCache = 0]
             ELSE [c EXCEPT !.TrieCleanCache = @ + c.TrieDirtyCache,
                            !.TrieDirtyCache = 0]
      ELSE c

\* if config.NoPruning && config.TrieDirtyCache > 0 {
\*   if config.SnapshotCache > 0 { config.TrieCleanCache += config.TrieDirtyCache * 3 / 5
\*                                 config.SnapshotCache += config.TrieDirtyCache * 2 / 5
\*   } else { config.TrieCleanCache += config.TrieDirtyCache }
\*   config.TrieDirtyCache = 0 }
RedistributedCaches(c) ==
    IF c.NoPruning /\ c.TrieDirtyCache > 0
      THEN IF c.SnapshotCache > 0
             THEN [c EXCEPT !.TrieCleanCache = @ + ((c.TrieDirtyCache * 3) \div 5),
                            !.SnapshotCache = @ + ((c.TrieDirtyCache * 2) \div 5),
                            !.TrieDirtyCache = 0]
             ELSE [c EXCEPT !.TrieCleanCache = @ + c.TrieDirtyCache,
                            !.TrieDirtyCache = 0]
      ELSE c

New_RedistributeCaches ==
    /\ newPc = "new_cache"
    /\ config' = RedistributedCaches(config)
    /\ newPc' = "new_opendb"
    /\ UNCHANGED <<config0, env, newResult, newLog, dbOpen, dbVersion, versionWrites,
                   gpoDefault, cacheLimit>>
    /\ UNCHANGED <<engine, mineVars, newFrame>>

\* chainDb, err := ctx.OpenDatabaseWithFreezer(...); if err != nil { return nil, err }
New_OpenDatabase ==
    /\ newPc = "new_opendb"
    /\ IF env.dbFail
         THEN /\ NewFail("err_db")
              /\ UNCHANGED <<dbOpen, newLog>>
         ELSE /\ dbOpen' = TRUE
              /\ newLog' = Append(newLog, "chainDb")
              /\ newPc' = "new_genesis"
              /\ UNCHANGED newResult
    /\ UNCHANGED <<config, config0, env, dbVersion, versionWrites, gpoDefault, cacheLimit>>
    /\ UNCHANGED <<engine, mineVars, newFrame>>

\* chainConfig, genesisHash, genesisErr := core.SetupGenesisBlock(chainDb, config.Genesis)
\* if _, ok := genesisErr.(*params.ConfigCompatError); genesisErr != nil && !ok { return nil, genesisErr }
New_SetupGenesis ==
    /\ newPc = "new_genesis"
    /\ IF env.genesis = "other"
         THEN /\ NewFail("err_genesis")
              /\ UNCHANGED newLog
         ELSE /\ newLog' = Append(newLog, "genesis")
              /\ newPc' = "new_struct"
              /\ UNCHANGED newResult
    /\ UNCHANGED <<config, config0, env, dbOpen, dbVersion, versionWrites, gpoDefault,
                   cacheLimit>>
    /\ UNCHANGED <<engine, mineVars, newFrame>>

\* BHE := &BHEereum{ ..., engine: CreateConsensusEngine(...), gasPrice: config.Miner.GasPrice,
\*   ..., bloomIndexer: NewBloomIndexer(...) }
New_Assemble ==
    /\ newPc = "new_struct"
    /\ engine' = CreateConsensusEngine(env.clique, config.PowMode)
    /\ threads' = InitThreads(engine')
    /\ gasPrice' = config.MinerGasPrice.val
    /\ newLog' = newLog \o <<"engine", "bloomIndexer">>
    /\ newPc' = "new_version"
    /\ UNCHANGED <<config, config0, env, newResult, dbOpen, dbVersion, versionWrites,
                   gpoDefault, cacheLimit>>
    /\ UNCHANGED <<BHEerbase, poolGasPrice, acceptTxs, signer, mining,
                   coinbase, starting, pc, op, arg, eb, ret, looked, prevRet, lastRet,
                   okStarts, after, didInit, ncalls, effects, launched>>
    /\ UNCHANGED newFrame

\* Variant of New_VersionCheck that compares the versions without reading the skip flag.
New_VersionCheck_IgnoreSkip ==
    /\ newPc = "new_version"
    /\ IF dbVersion # NoVersion /\ dbVersion > BlockChainVersion
         THEN /\ NewFail("err_version")
              /\ UNCHANGED <<dbVersion, versionWrites, newLog>>
         ELSE /\ IF dbVersion = NoVersion \/ dbVersion < BlockChainVersion
                   THEN /\ dbVersion' = BlockChainVersion
                        /\ versionWrites' = versionWrites + 1
                   ELSE UNCHANGED <<dbVersion, versionWrites>>
              /\ newLog' = Append(newLog, "version")
              /\ newPc' = "new_chain"
              /\ UNCHANGED newResult
    /\ UNCHANGED <<config, config0, env, dbOpen, gpoDefault, cacheLimit>>
    /\ UNCHANGED <<engine, mineVars, newFrame>>

\* Variant of New_VersionCheck that upgrades an older marker but not an absent one.
New_VersionCheck_OnlyOlder ==
    /\ newPc = "new_version"
    /\ IF ~config.SkipBcVersionCheck /\ dbVersion # NoVersion /\ dbVersion > BlockChainVersion
         THEN /\ NewFail("err_version")
              /\ UNCHANGED <<dbVersion, versionWrites, newLog>>
         ELSE /\ IF ~config.SkipBcVersionCheck
                     /\ dbVersion # NoVersion /\ dbVersion < BlockChainVersion
                   THEN /\ dbVersion' = BlockChainVersion
                        /\ versionWrites' = versionWrites + 1
                   ELSE UNCHANGED <<dbVersion, versionWrites>>
              /\ newLog' = Append(newLog, "version")
              /\ newPc' = "new_chain"
              /\ UNCHANGED newResult
    /\ UNCHANGED <<config, config0, env, dbOpen, gpoDefault, cacheLimit>>
    /\ UNCHANGED <<engine, mineVars, newFrame>>

\* bcVersion := rawdb.ReadDatabaseVersion(chainDb)
\* if !config.SkipBcVersionCheck {
\*   if bcVersion != nil && *bcVersion > core.BlockChainVersion { return error }
\*   else if bcVersion == nil || *bcVersion < core.BlockChainVersion {
\*     rawdb.WriteDatabaseVersion(chainDb, core.BlockChainVersion) } }
New_VersionCheck ==
    /\ newPc = "new_version"
    /\ IF ~config.SkipBcVersionCheck /\ dbVersion # NoVersion /\ dbVersion > BlockChainVersion
         THEN /\ NewFail("err_version")
              /\ UNCHANGED <<dbVersion, versionWrites, newLog>>
         ELSE /\ IF ~config.SkipBcVersionCheck
                     /\ (dbVersion = NoVersion \/ dbVersion < BlockChainVersion)
                   THEN /\ dbVersion' = BlockChainVersion
                        /\ versionWrites' = versionWrites + 1
                   ELSE UNCHANGED <<dbVersion, versionWrites>>
              /\ newLog' = Append(newLog, "version")
              /\ newPc' = "new_chain"
              /\ UNCHANGED newResult
    /\ UNCHANGED <<config, config0, env, dbOpen, gpoDefault, cacheLimit>>
    /\ UNCHANGED <<engine, mineVars, newFrame>>

\* BHE.blockchain, err = core.NewBlockChain(...); if err != nil { return nil, err }
New_BlockChain ==
    /\ newPc = "new_chain"
    /\ IF env.chainFail
         THEN /\ NewFail("err_chain")
              /\ UNCHANGED newLog
         ELSE /\ newLog' = Append(newLog, "blockchain")
              /\ newPc' = "new_rewind"
              /\ UNCHANGED newResult
    /\ UNCHANGED <<config, config0, env, dbOpen, dbVersion, versionWrites, gpoDefault,
                   cacheLimit>>
    /\ UNCHANGED <<engine, mineVars, newFrame>>

\* Variant of New_Rewind that drops the pending rewind.
New_Rewind_Never ==
    /\ newPc = "new_rewind"
    /\ newPc' = "new_bloom"
    /\ UNCHANGED <<newLog, config, config0, env, newResult, dbOpen, dbVersion,
                   versionWrites, gpoDefault, cacheLimit>>
    /\ UNCHANGED <<engine, mineVars, newFrame>>

\* if compat, ok := genesisErr.(*params.ConfigCompatError); ok {
\*   BHE.blockchain.SBHEead(compat.RewindTo); rawdb.WriteChainConfig(chainDb, genesisHash, chainConfig) }
New_Rewind ==
    /\ newPc = "new_rewind"
    /\ newLog' = IF env.genesis = "compat"
                   THEN newLog \o <<"rewind", "writeChainConfig">>
                   ELSE newLog
    /\ newPc' = "new_bloom"
    /\ UNCHANGED <<config, config0, env, newResult, dbOpen, dbVersion, versionWrites,
                   gpoDefault, cacheLimit>>
    /\ UNCHANGED <<engine, mineVars, newFrame>>

\* A statement of New that only builds or starts a subsystem.
NewPlain(at, name, next) ==
    /\ newPc = at
    /\ newLog' = Append(newLog, name)
    /\ newPc' = next
    /\ UNCHANGED <<config, config0, env, newResult, dbOpen, dbVersion, versionWrites,
                   gpoDefault, cacheLimit>>
    /\ UNCHANGED <<engine, mineVars, newFrame>>

\* BHE.bloomIndexer.Start(BHE.blockchain)
New_BloomIndexerStart == NewPlain("new_bloom", "bloomIndexer.Start", "new_txpool")

\* BHE.txPool = core.NewTxPool(config.TxPool, chainConfig, BHE.blockchain)
New_TxPool == NewPlain("new_txpool", "txPool", "new_pm")

\* cacheLimit := cacheConfig.TrieCleanLimit + cacheConfig.TrieDirtyLimit + cacheConfig.SnapshotLimit
\* if BHE.protocolManager, err = NewProtocolManager(..., cacheLimit, ...); err != nil { return nil, err }
New_ProtocolManager ==
    /\ newPc = "new_pm"
    /\ cacheLimit' = config.TrieCleanCache + config.TrieDirtyCache + config.SnapshotCache
    /\ IF env.pmFail
         THEN /\ NewFail("err_pm")
              /\ UNCHANGED newLog
         ELSE /\ newLog' = Append(newLog, "protocolManager")
              /\ newPc' = "new_miner"
              /\ UNCHANGED newResult
    /\ UNCHANGED <<config, config0, env, dbOpen, dbVersion, versionWrites, gpoDefault>>
    /\ UNCHANGED <<engine, mineVars, newFrame>>

\* BHE.miner = miner.New(...); BHE.miner.SetExtra(makeExtraData(config.Miner.ExtraData))
New_Miner == NewPlain("new_miner", "miner", "new_api")

\* gpoParams := config.GPO; if gpoParams.Default == nil { gpoParams.Default = config.Miner.GasPrice }
\* BHE.APIBackend.gpo = gasprice.NewOracle(BHE.APIBackend, gpoParams)
New_APIBackend ==
    /\ newPc = "new_api"
    /\ gpoDefault' = IF ~config.GPODefault.set THEN config.MinerGasPrice ELSE config.GPODefault
    /\ newLog' = Append(newLog, "APIBackend")
    /\ newPc' = "new_disc"
    /\ UNCHANGED <<config, config0, env, newResult, dbOpen, dbVersion, versionWrites,
                   cacheLimit>>
    /\ UNCHANGED <<engine, mineVars, newFrame>>

\* BHE.dialCandidates, err = BHE.setupDiscovery(&ctx.Config.P2P)
\* if err != nil { return nil, err }; return BHE, nil
New_Discovery ==
    /\ newPc = "new_disc"
    /\ IF env.discFail
         THEN /\ NewFail("err_discovery")
              /\ UNCHANGED newLog
         ELSE /\ newLog' = Append(newLog, "dialCandidates")
              /\ newResult' = "ok"
              /\ newPc' = "done"
    /\ UNCHANGED <<config, config0, env, dbOpen, dbVersion, versionWrites, gpoDefault,
                   cacheLimit>>
    /\ UNCHANGED <<engine, mineVars, newFrame>>

----------------------------------------------------------------------------
\* Bloom retrieval.  Start launches BloomServiceThreads workers.  A worker
\* polls the shared intake s.bloomRequests and the close signal; having taken
\* a session's request queue from the intake it receives the task from that
\* queue, services it and sends it back on the same queue, then polls again.
\* All channels are unbuffered: a hand-over is one step of both parties.

Workers == 1..BloomServiceThreads

\* The session handed to ServiceFilter.
Sessions == {1}

\* The worker goroutine was launched by Start.
Launched(i) == i <= bloomWorkers

lifeFrame == <<engine, lightServ, lightPeers, maxPeers, lesServer, locals, wallets,
               newVars, lifeVars, mineVars, query>>

\* go session.Multiplex(..., b.BHE.bloomRequests): the session's goroutine
\* has a request and offers its queue on the intake.
S_Offer(s) ==
    /\ sessPc[s] = "idle" /\ requests < MaxRequests
    /\ sessPc' = [sessPc EXCEPT ![s] = "offer"]
    /\ requests' = requests + 1
    /\ UNCHANGED <<workerPc, workerSess, lifeFrame>>

\* The session is abandoned while its offer is pending.
S_Abandon(s) ==
    /\ sessPc[s] = "offer"
    /\ sessPc' = [sessPc EXCEPT ![s] = "idle"]
    /\ UNCHANGED <<workerPc, workerSess, requests, lifeFrame>>

\* case request := <-s.bloomRequests: the worker takes a session's queue.
W_Take(i, s) ==
    /\ Launched(i) /\ workerPc[i] = "poll"
    /\ sessPc[s] = "offer"
    /\ workerPc' = [workerPc EXCEPT ![i] = "recv"]
    /\ workerSess' = [workerSess EXCEPT ![i] = s]
    /\ sessPc' = [sessPc EXCEPT ![s] = "task"]
    /\ UNCHANGED <<requests, lifeFrame>>

\* task := <-request: the session hands the task over on its own queue.
W_Task(i) ==
    /\ workerPc[i] = "recv"
    /\ sessPc[workerSess[i]] = "task"
    /\ workerPc' = [workerPc EXCEPT ![i] = "send"]
    /\ sessPc' = [sessPc EXCEPT ![workerSess[i]] = "wait"]
    /\ UNCHANGED <<workerSess, requests, lifeFrame>>

\* request <- task: the serviced task goes back to the session; poll again.
W_Result(i) ==
    /\ workerPc[i] = "send"
    /\ sessPc[workerSess[i]] = "wait"
    /\ workerPc' = [workerPc EXCEPT ![i] = "poll"]
    /\ workerSess' = [workerSess EXCEPT ![i] = 0]
    /\ sessPc' = [sessPc EXCEPT ![workerSess[i]] = "idle"]
    /\ UNCHANGED <<requests, lifeFrame>>

\* case <-s.closeBloomHandler: return
W_Exit(i) ==
    /\ Launched(i) /\ workerPc[i] = "poll"
    /\ closeBloomHandler = "closed"
    /\ workerPc' = [workerPc EXCEPT ![i] = "exited"]
    /\ UNCHANGED <<workerSess, sessPc, requests, lifeFrame>>

\* Any step of worker i.
W_Step(i) ==
    \/ \E s \in Sessions : W_Take(i, s)
    \/ W_Task(i)
    \/ W_Result(i)
    \/ W_Exit(i)

----------------------------------------------------------------------------
\* Initial states.

\* No worker has taken anything, no session has offered anything.
InitBloomVars ==
    /\ workerPc = [i \in Workers |-> "poll"]
    /\ workerSess = [i \in Workers |-> 0]
    /\ sessPc = [s \in Sessions |-> "idle"]
    /\ requests = 0

\* A configuration and collaborators with nothing out of the ordinary.
BaseConfig ==
    [SyncMode |-> "full", MinerGasPrice |-> Big(1), GPODefault |-> NilBig,
     NoPruning |-> FALSE, TrieCleanCache |-> 1, TrieDirtyCache |-> 1, SnapshotCache |-> 1,
     SkipBcVersionCheck |-> FALSE, PowMode |-> "ModeNormal"]

BenignEnv ==
    [dbFail |-> FALSE, diskVersion |-> BlockChainVersion, genesis |-> "none",
     clique |-> FALSE, chainFail |-> FALSE, pmFail |-> FALSE, discFail |-> FALSE]

\* The construction fields of a service whose construction is over.
InitNewDone ==
    /\ InitBloomVars
    /\ config = BaseConfig
    /\ config0 = BaseConfig
    /\ env = BenignEnv
    /\ newPc = "done"
    /\ newResult = "ok"
    /\ newLog = << >>
    /\ dbOpen = TRUE
    /\ dbVersion = BlockChainVersion
    /\ versionWrites = 0
    /\ gpoDefault = NilBig
    /\ cacheLimit = 0

NoQuery == [asked |-> FALSE, block |-> [author |-> ZeroAddr, err |-> FALSE],
            local |-> FALSE, preserve |-> FALSE]

\* The lifecycle fields of a freshly constructed service.
InitLifeVars ==
    /\ lifePc = "idle"
    /\ startResult = "none"
    /\ enrUpdater = FALSE
    /\ bloomWorkers = 0
    /\ netRPCService = FALSE
    /\ advMaxPeers = 0
    /\ pmStarted = FALSE
    /\ pmMaxPeers = 0
    /\ lesStarted = FALSE
    /\ closeBloomHandler = "open"
    /\ stopCalls = 0
    /\ stopLog = << >>
    /\ stopFailed = {}
    /\ stopResult = "none"

\* The mining fields of a freshly constructed service: BHEerbase and gasPrice
\* come from the configuration, nothing is mining, no caller is in a call.
InitMineVars ==
    /\ gasPrice = 1
    /\ poolGasPrice = 0
    /\ acceptTxs = 0
    /\ signer = ZeroAddr
    /\ threads = InitThreads(engine)
    /\ coinbase = BHEerbase
    /\ starting = << >>
    /\ pc = [p \in Procs |-> "idle"]
    /\ op = [p \in Procs |-> "none"]
    /\ arg = [p \in Procs |-> 0]
    /\ eb = [p \in Procs |-> ZeroAddr]
    /\ ret = [p \in Procs |-> "none"]
    /\ looked = [p \in Procs |-> 0]
    /\ prevRet = [p \in Procs |-> NoAddr]
    /\ lastRet = NoAddr
    /\ okStarts = FALSE
    /\ after = [p \in Procs |-> FALSE]
    /\ didInit = [p \in Procs |-> FALSE]
    /\ ncalls = 0
    /\ effects = [p \in Procs |-> {}]
    /\ launched = FALSE

InitLife ==
    /\ InitNewDone
    /\ engine = "BHEash"
    /\ lightServ \in 0..1
    /\ lightPeers \in 0..MaxPeerBound
    /\ maxPeers \in 0..MaxPeerBound
    /\ lesServer \in BOOLEAN
    /\ locals = {}
    /\ wallets = << >>
    /\ BHEerbase = ZeroAddr
    /\ mining \in BOOLEAN
    /\ InitLifeVars
    /\ InitMineVars
    /\ query = NoQuery

InitMining ==
    /\ InitNewDone
    /\ engine \in {"clique", "BHEash"}
    /\ lightServ = 0
    /\ lightPeers = 0
    /\ maxPeers = 0
    /\ lesServer = FALSE
    /\ locals = {}
    /\ wallets \in WalletChoices
    /\ BHEerbase \in AnyAddr
    /\ mining = FALSE
    /\ InitLifeVars
    /\ InitMineVars
    /\ query = NoQuery

InitPolicy ==
    /\ InitNewDone
    /\ engine \in EngineKinds
    /\ lightServ = 0
    /\ lightPeers = 0
    /\ maxPeers = 0
    /\ lesServer = FALSE
    /\ locals \in SUBSET Addrs
    /\ wallets = << >>
    /\ BHEerbase \in AnyAddr
    /\ mining = FALSE
    /\ InitLifeVars
    /\ InitMineVars
    /\ query = NoQuery

\* Every sync mode, price floor and cache configuration.
Configs ==
    [SyncMode : SyncModes,
     MinerGasPrice : {NilBig} \cup {Big(v) : v \in (0 - 1)..MaxPrice},
     GPODefault : {NilBig, Big(MaxPrice + 2)},
     NoPruning : BOOLEAN,
     TrieCleanCache : 0..1,
     TrieDirtyCache : 0..MaxCache,
     SnapshotCache : 0..1,
     SkipBcVersionCheck : {FALSE},
     PowMode : {"ModeNormal"}]

\* Every version-check flag and engine mode.
EngineConfigs ==
    {[BaseConfig EXCEPT !.SkipBcVersionCheck = k, !.PowMode = m] :
        k \in BOOLEAN, m \in PowModes}

\* Every answer of the collaborators.
Envs ==
    [dbFail : BOOLEAN, diskVersion : DiskVersions, genesis : {"none", "compat", "other"},
     clique : BOOLEAN, chainFail : BOOLEAN, pmFail : BOOLEAN, discFail : BOOLEAN]

\* New is called: every configuration with ordinary collaborators and every
\* store version, or an ordinary configuration (any version-check flag and
\* engine mode) with every answer of the collaborators and every store version.
InitNew ==
    /\ \/ /\ config \in Configs
          /\ env \in {[BenignEnv EXCEPT !.diskVersion = v] : v \in DiskVersions}
       \/ /\ config \in EngineConfigs
          /\ env \in Envs
    /\ InitBloomVars
    /\ config0 = config
    /\ dbVersion = env.diskVersion
    /\ newPc = "new_sync"
    /\ newResult = "none"
    /\ newLog = << >>
    /\ dbOpen = FALSE
    /\ versionWrites = 0
    /\ gpoDefault = NilBig
    /\ cacheLimit = 0
    /\ engine = "none"
    /\ lightServ = 0
    /\ lightPeers = 0
    /\ maxPeers = 0
    /\ lesServer = FALSE
    /\ locals = {}
    /\ wallets = << >>
    /\ BHEerbase = ZeroAddr
    /\ mining = FALSE
    /\ InitLifeVars
    /\ gasPrice = 0
    /\ poolGasPrice = 0
    /\ acceptTxs = 0
    /\ signer = ZeroAddr
    /\ threads = 0
    /\ coinbase = ZeroAddr
    /\ starting = << >>
    /\ pc = [p \in Procs |-> "idle"]
    /\ op = [p \in Procs |-> "none"]
    /\ arg = [p \in Procs |-> 0]
    /\ eb = [p \in Procs |-> ZeroAddr]
    /\ ret = [p \in Procs |-> "none"]
    /\ looked = [p \in Procs |-> 0]
    /\ prevRet = [p \in Procs |-> NoAddr]
    /\ lastRet = NoAddr
    /\ okStarts = FALSE
    /\ after = [p \in Procs |-> FALSE]
    /\ didInit = [p \in Procs |-> FALSE]
    /\ ncalls = 0
    /\ effects = [p \in Procs |-> {}]
    /\ launched = FALSE
    /\ query = NoQuery

\* A constructed service with no light serving, for the bloom workers.
InitBloom ==
    /\ InitNewDone
    /\ engine = "BHEash"
    /\ lightServ = 0
    /\ lightPeers = 0
    /\ maxPeers \in 0..1
    /\ lesServer = FALSE
    /\ locals = {}
    /\ wallets = << >>
    /\ BHEerbase = ZeroAddr
    /\ mining = FALSE
    /\ InitLifeVars
    /\ InitMineVars
    /\ query = NoQuery

----------------------------------------------------------------------------
\* Specifications.

NextLife ==
    \/ CallStart
    \/ Start_EntryUpdate
    \/ Start_BloomHandlers
    \/ Start_NetRPC
    \/ Start_MaxPeers
    \/ Start_ProtocolManager
    \/ Start_LesServer
    \/ CallStop
    \/ Stop_protocolManager
    \/ Stop_lesServer
    \/ Stop_bloomIndexer
    \/ Stop_closeBloomHandler
    \/ Stop_txPool
    \/ Stop_miner
    \/ Stop_blockchain
    \/ Stop_engine
    \/ Stop_chainDb
    \/ Stop_eventMux
    \/ Stop_return

NextMining ==
    \/ \E p \in Procs : CallStartMining(p)
    \/ \E p \in Procs : SM_SetThreads(p)
    \/ \E p \in Procs : SM_CheckMining(p)
    \/ \E p \in Procs : SM_SetGasPrice(p)
    \/ \E p \in Procs : SM_Authorize(p)
    \/ \E p \in Procs : SM_AcceptTxs(p)
    \/ \E p \in Procs : SM_Go(p)
    \/ MinerStart
    \/ \E p \in Procs : CallBHEerbase(p)
    \/ \E p \in Procs : EB_Read(p)
    \/ \E p \in Procs : EB_Lookup(p)
    \/ \E p \in Procs : EB_Write(p)
    \/ \E p \in Procs : CallStopMining(p)
    \/ \E p \in Procs : ST_SetThreads(p)
    \/ \E p \in Procs : ST_MinerStop(p)
    \/ \E p \in Procs : CallSetBHEerbase(p)
    \/ \E p \in Procs : SE_Write(p)
    \/ \E p \in Procs : SE_Miner(p)

\* The lifecycle thread, the bloom workers and the sessions they serve.
NextBloom ==
    \/ NextLife
    \/ \E s \in Sessions : S_Offer(s)
    \/ \E s \in Sessions : S_Abandon(s)
    \/ \E i \in Workers : W_Step(i)

\* Callers of SetBHEerbase and of BHEerbase only.
NextAddress ==
    \/ \E p \in Procs : CallSetBHEerbase(p)
    \/ \E p \in Procs : SE_Write(p)
    \/ \E p \in Procs : SE_Miner(p)
    \/ \E p \in Procs : CallBHEerbase(p)
    \/ \E p \in Procs : EB_Read(p)
    \/ \E p \in Procs : EB_Lookup(p)
    \/ \E p \in Procs : EB_Write(p)

\* Callers of SetBHEerbase only.
NextSetAddress ==
    \/ \E p \in Procs : CallSetBHEerbase(p)
    \/ \E p \in Procs : SE_Write(p)
    \/ \E p \in Procs : SE_Miner(p)

NextPolicy == ShouldPreserveQuery

NextNew ==
    \/ New_CheckSyncMode
    \/ New_SanitizeGasPrice
    \/ New_RedistributeCaches
    \/ New_OpenDatabase
    \/ New_SetupGenesis
    \/ New_Assemble
    \/ New_VersionCheck
    \/ New_BlockChain
    \/ New_Rewind
    \/ New_BloomIndexerStart
    \/ New_TxPool
    \/ New_ProtocolManager
    \/ New_Miner
    \/ New_APIBackend
    \/ New_Discovery

SpecLife == InitLife /\ [][NextLife]_vars

SpecMining == InitMining /\ [][NextMining]_vars

\* Every worker goroutine is scheduled again and again.
SpecBloom ==
    /\ InitBloom
    /\ [][NextBloom]_vars
    /\ \A i \in Workers : WF_vars(W_Step(i))

SpecAddress == InitMining /\ [][NextAddress]_vars

SpecSetAddress == InitMining /\ [][NextSetAddress]_vars

SpecPolicy == InitPolicy /\ [][NextPolicy]_vars

SpecNew == InitNew /\ [][NextNew]_vars

----------------------------------------------------------------------------
\* Properties.

\* The set of elements of a sequence.
Range(q) == {q[i] : i \in 1..Len(q)}

\* The teardown order as the specification lists it, with the light server
\* step when a light server is attached.
ClaimedOrder(les) ==
    <<"protocolManager">> \o (IF les THEN <<"lesServer">> ELSE << >>) \o
    <<"bloomIndexer", "closeBloomHandler", "txPool", "miner", "blockchain",
      "engine", "chainDb", "eventMux">>

\* Mining loops that were launched and not stopped: the goroutines of
\* `go s.miner.Start(eb)` still to run, and the loop of a mining miner.
LiveLoops == Len(starting) + (IF mining THEN 1 ELSE 0)

\* C1: a StartMining call that begins after another StartMining call launched
\* a loop and returned, with no StopMining call since, never enters the
\* not-running branch: it sets no pool price, resolves no address, binds no
\* signer, writes no accept-flag and launches no loop.
C1_SecondStartOnlyRescales ==
    \A p \in Procs : after[p] => ~didInit[p]

\* C2: in every reachable state at most one mining loop is live.
C2_AtMostOneLiveLoop == LiveLoops <= 1

\* C3: when Start has failed on the light-peer reservation, no subsystem was
\* started: no bloom worker, no capability-record updater, no protocol layer,
\* no light server.
C3_FailedStartStartsNothing ==
    startResult = "err" =>
        /\ bloomWorkers = 0
        /\ ~enrUpdater
        /\ ~pmStarted
        /\ ~lesStarted

\* C4 as stated: whenever the light-peer reservation is >= the total max-peer
\* count Start returns an error and the protocol layer is not started; when it
\* is strictly less Start returns no error.
C4_ErrorIffReservationTooLarge ==
    startResult # "none" =>
        IF lightPeers >= maxPeers
          THEN startResult = "err" /\ ~pmStarted
          ELSE startResult = "ok"

\* C4 amended: with light serving enabled (LightServ > 0) and the reservation
\* >= the total max-peer count, Start returns an error and never reaches the
\* start of the protocol layer; in every other configuration (reservation
\* strictly less, or light serving disabled) Start returns no error and has
\* started the protocol layer with the total budget less the reservation
\* (the whole budget when light serving is disabled).
C4_ErrorIffLightServAndReservationTooLarge ==
    LET rejected == lightServ > 0 /\ lightPeers >= maxPeers IN
    /\ rejected => /\ lifePc \notin {"start_pm", "start_les"}
                   /\ ~pmStarted
                   /\ startResult # "ok"
    /\ startResult # "none" => startResult = (IF rejected THEN "err" ELSE "ok")
    /\ (startResult = "ok" /\ stopCalls = 0) =>
          /\ pmStarted
          /\ pmMaxPeers = (IF lightServ > 0 THEN maxPeers - lightPeers ELSE maxPeers)

\* Start has returned the error on the boundary case reservation = budget.
C4_Witness ==
    startResult = "err" /\ lightServ > 0 /\ lightPeers = maxPeers /\ maxPeers > 0

\* C5: a second (or later) Stop call completes like the first: it does not
\* panic and returns nil.
C5_StopIdempotent ==
    stopCalls >= 2 => /\ stopResult # "panic"
                      /\ (lifePc = "idle" => stopResult = "nil")

\* C6: on a service on which Start was never called or on which Start failed,
\* Stop never blocks and never panics, and when it has returned it has
\* returned nil and attempted every teardown step.
C6_StopWithoutStart ==
    (startResult # "ok" /\ stopCalls = 1) =>
        /\ stopResult \in {"none", "nil"}
        /\ lifePc # "idle" => ENABLED NextLife
        /\ lifePc = "idle" =>
              /\ stopResult = "nil"
              /\ Range(stopLog) = Range(ClaimedOrder(lesServer))

\* Stop has returned on a service on which Start was never called.
C6_Witness ==
    /\ startResult = "none" /\ stopCalls = 1 /\ lifePc = "idle"
    /\ stopResult = "nil" /\ ~enrUpdater /\ bloomWorkers = 0

\* C7: in the Stop call of a service, a teardown step that fails neither ends
\* the call nor surfaces: once steps have failed, Stop still goes on to every
\* later step and returns nil.
C7_StopBestEffort ==
    (stopCalls = 1 /\ stopFailed # {}) =>
        /\ stopResult \in {"none", "nil"}
        /\ lifePc = "idle" =>
              /\ stopResult = "nil"
              /\ \A i \in 1..Len(ClaimedOrder(lesServer)) :
                    \E j \in 1..Len(stopLog) : stopLog[j] = ClaimedOrder(lesServer)[i]
        /\ \A i \in 1..Len(stopLog) :
              (stopLog[i] \in stopFailed /\ i < Len(stopLog)) =>
                  stopLog[i + 1] = ClaimedOrder(lesServer)[i + 1]

\* Stop has returned nil although its first and its last step failed.
C7_Witness ==
    /\ stopCalls = 1 /\ lifePc = "idle" /\ stopResult = "nil"
    /\ {"protocolManager", "eventMux"} \subseteq stopFailed
    /\ Len(stopLog) = Len(ClaimedOrder(lesServer))

\* C8: the teardown events of every Stop call occur in the listed order (the
\* events of a call are a prefix of the list, the whole list once the call
\* has returned); the store is closed only after the pool, the mining loop
\* and the chain were stopped.
C8_StopOrder ==
    /\ IsPrefix(stopLog, ClaimedOrder(lesServer))
    /\ stopResult = "nil" => stopLog = ClaimedOrder(lesServer)
    /\ "chainDb" \in Range(stopLog) =>
          \E k \in 1..Len(stopLog) :
              /\ stopLog[k] = "chainDb"
              /\ {"txPool", "miner", "blockchain"} \subseteq Range(SubSeq(stopLog, 1, k - 1))

\* Stop has returned on a started service with a light server attached.
C8_Witness ==
    /\ stopResult = "nil" /\ lesServer /\ startResult = "ok"
    /\ Len(stopLog) = 10

\* C9: shouldPreserve answers false for every block under the authority-round
\* engine and exactly isLocalBlock(block) under every other engine.
C9_ShouldPreserve ==
    query.asked =>
        query.preserve = (IF engine = "clique" THEN FALSE ELSE isLocalBlock(query.block))

\* Under the authority-round engine a local block was refused preservation.
C9_Witness ==
    /\ query.asked /\ engine = "clique"
    /\ isLocalBlock(query.block) /\ ~query.preserve

\* C10: a resolution that begins after a resolution returned address a (with
\* no SetBHEerbase since) returns a and performs no account-manager lookup.
C10_ResolveIdempotent ==
    \A p \in Procs :
        prevRet[p] # NoAddr =>
            /\ pc[p] \notin {"eb_lookup", "eb_write"}
            /\ looked[p] = 0
            /\ eb[p] = prevRet[p]

\* A second resolution returned the address the first had taken from the
\* account manager and cached.
C10_Witness ==
    \E p \in Procs :
        /\ op[p] = "BHEerbase" /\ pc[p] = "idle" /\ ret[p] = "ok"
        /\ prevRet[p] # NoAddr /\ eb[p] = prevRet[p] /\ looked[p] = 0
        /\ \E q \in Procs \ {p} : op[q] = "BHEerbase" /\ ret[q] = "ok" /\ looked[q] = 1

\* The outcomes with which StartMining returns an error.
StartMiningErrors == {"err_BHEerbase", "err_signer"}

\* C11: a StartMining call that returns an error (no address could be
\* resolved, or under the authority-round engine no wallet holds it) has
\* entered the not-running branch and has bound no signer, written no
\* accept-flag and launched no loop; unless another call did so, the service
\* is not mining, has no signer and does not accept.
C11_FailedStartMiningStartsNothing ==
    \A p \in Procs :
        (op[p] = "StartMining" /\ ret[p] \in StartMiningErrors) =>
            /\ pc[p] = "idle"
            /\ didInit[p]
            /\ effects[p] = {}
            /\ ret[p] = "err_signer" => (IsClique(engine) /\ ~HasWallet(eb[p]))
            /\ (~launched /\ \A q \in Procs \ {p} : effects[q] = {}) =>
                  /\ ~IsMining
                  /\ starting = << >>
                  /\ signer = ZeroAddr
                  /\ acceptTxs = 0

\* Under the authority-round engine StartMining failed on the missing wallet
\* of a resolved address.
C11_Witness ==
    \E p \in Procs :
        /\ op[p] = "StartMining" /\ ret[p] = "err_signer" /\ eb[p] # ZeroAddr
        /\ ~IsMining /\ signer = ZeroAddr /\ acceptTxs = 0 /\ ~launched

\* Every occurrence of y in q comes after an occurrence of x.
Precedes(q, x, y) ==
    \A j \in 1..Len(q) : q[j] = y => \E i \in 1..(j - 1) : q[i] = x

\* What the claims count as subsystems built on the store.
Subsystems == {"engine", "blockchain", "txPool", "protocolManager"}

\* C12: the consensus engine is selected only after the schema-version
\* comparison has passed, and a construction that failed on a newer on-disk
\* version has built no engine, no chain, no pool and no protocol layer.
C12_EngineAfterVersionCheck ==
    /\ Precedes(newLog, "version", "engine")
    /\ newResult = "err_version" =>
          /\ engine = "none"
          /\ Range(newLog) \cap Subsystems = {}

\* C13: with the version check not skipped and an on-disk version above the
\* expected one, construction never succeeds, it returns the version-mismatch
\* error whenever it gets as far as the version step, and the stored marker
\* stays as found; with the check skipped construction never returns the
\* version-mismatch error, whatever the store holds.
C13_NewerVersionFails ==
    /\ (~config0.SkipBcVersionCheck /\ env.diskVersion # NoVersion
            /\ env.diskVersion > BlockChainVersion) =>
          /\ newResult # "ok"
          /\ "version" \notin Range(newLog)
          /\ newPc \notin {"new_sync", "new_price", "new_cache", "new_opendb",
                           "new_genesis", "new_struct", "new_version"}
                => newResult \in {"err_version", "err_db", "err_genesis",
                                  "err_light", "err_syncmode"}
          /\ (newPc = "done" /\ "genesis" \in Range(newLog)) => newResult = "err_version"
          /\ dbVersion = env.diskVersion
          /\ versionWrites = 0
    /\ config0.SkipBcVersionCheck => newResult # "err_version"

\* Construction failed on a store one version ahead and left the marker alone.
C13_Witness ==
    /\ newResult = "err_version"
    /\ ~config0.SkipBcVersionCheck
    /\ env.diskVersion = BlockChainVersion + 1
    /\ dbVersion = env.diskVersion

\* C14: with the version check not skipped and the on-disk version absent or
\* below the expected one, construction does not fail on the version step and
\* once the step is passed the stored marker is the expected version, written
\* once; with equal versions or the check skipped the marker is never written.
C14_OlderOrAbsentUpgrades ==
    /\ (~config0.SkipBcVersionCheck
            /\ (env.diskVersion = NoVersion \/ env.diskVersion < BlockChainVersion)) =>
          /\ newResult # "err_version"
          /\ "version" \in Range(newLog) =>
                (dbVersion = BlockChainVersion /\ versionWrites = 1)
          /\ "version" \notin Range(newLog) =>
                (dbVersion = env.diskVersion /\ versionWrites = 0)
    /\ (config0.SkipBcVersionCheck \/ env.diskVersion = BlockChainVersion) =>
          /\ versionWrites = 0
          /\ dbVersion = env.diskVersion

\* A store without a marker was upgraded by a construction that succeeded.
C14_Witness ==
    /\ newResult = "ok"
    /\ ~config0.SkipBcVersionCheck
    /\ env.diskVersion = NoVersion
    /\ dbVersion = BlockChainVersion
    /\ versionWrites = 1

\* C15: with the light sync mode or an unrecognized sync mode construction
\* fails in its first step: the store is never opened, no configuration field
\* is changed and nothing is built.
C15_BadSyncModeFailsFirst ==
    (config0.SyncMode = "light" \/ ~IsValid(config0.SyncMode)) =>
        /\ newPc \in {"new_sync", "done"}
        /\ newPc = "done" =>
              newResult = (IF config0.SyncMode = "light" THEN "err_light" ELSE "err_syncmode")
        /\ ~dbOpen
        /\ config = config0
        /\ newLog = << >>
        /\ engine = "none"

\* The light sync mode was refused on a configuration that had a price floor
\* to sanitize and a dirty budget to redistribute.
C15_Witness ==
    /\ newResult = "err_light"
    /\ config0.SyncMode = "light"
    /\ ~config0.MinerGasPrice.set
    /\ config0.NoPruning /\ config0.TrieDirtyCache > 0
    /\ config = config0 /\ ~dbOpen

\* New is past its redistribution step (it did not fail before it).
Redistributed ==
    /\ newPc \notin {"new_sync", "new_price", "new_cache"}
    /\ newResult \notin {"err_light", "err_syncmode"}

\* C16: after the redistribution step, with pruning disabled and dirty
\* budget D > 0: with a snapshot budget > 0, clean = clean0 + 3D/5 and
\* snapshot = snapshot0 + 2D/5 (integer division) and dirty = 0; otherwise
\* clean = clean0 + D, snapshot unchanged, dirty = 0.  With pruning enabled or
\* D = 0 the three budgets are unchanged.
C16_Redistribution ==
    Redistributed =>
        LET D == config0.TrieDirtyCache IN
        IF config0.NoPruning /\ D > 0
          THEN IF config0.SnapshotCache > 0
                 THEN /\ config.TrieCleanCache = config0.TrieCleanCache + ((3 * D) \div 5)
                      /\ config.SnapshotCache = config0.SnapshotCache + ((2 * D) \div 5)
                      /\ config.TrieDirtyCache = 0
                 ELSE /\ config.TrieCleanCache = config0.TrieCleanCache + D
                      /\ config.SnapshotCache = config0.SnapshotCache
                      /\ config.TrieDirtyCache = 0
          ELSE /\ config.TrieCleanCache = config0.TrieCleanCache
               /\ config.SnapshotCache = config0.SnapshotCache
               /\ config.TrieDirtyCache = config0.TrieDirtyCache

\* The largest dirty budget was split between the clean and snapshot budgets.
C16_Witness ==
    /\ Redistributed
    /\ config0.NoPruning /\ config0.TrieDirtyCache = MaxCache /\ config0.SnapshotCache > 0
    /\ config.TrieCleanCache > config0.TrieCleanCache
    /\ config.SnapshotCache > config0.SnapshotCache
    /\ config.TrieDirtyCache = 0

\* The floor the claim expects for a configured floor g.
ExpectedFloor(g) == IF ~g.set \/ g.val <= 0 THEN DefaultGasPrice ELSE g.val

\* C17: after a successful construction the stored mining price is the
\* documented default when the configured floor was unset, zero or negative
\* and the configured floor when it was positive; the price-estimation
\* default is that same floor when it was unset and is kept when it was set.
C17_GasPriceFloor ==
    newResult = "ok" =>
        /\ gasPrice = ExpectedFloor(config0.MinerGasPrice)
        /\ config.MinerGasPrice = Big(ExpectedFloor(config0.MinerGasPrice))
        /\ gpoDefault = (IF config0.GPODefault.set
                           THEN config0.GPODefault
                           ELSE Big(ExpectedFloor(config0.MinerGasPrice)))

\* A zero floor with no price-estimation default became the documented default in both places.
C17_Witness ==
    /\ newResult = "ok"
    /\ config0.MinerGasPrice = Big(0)
    /\ ~config0.GPODefault.set
    /\ gasPrice = DefaultGasPrice
    /\ gpoDefault = Big(DefaultGasPrice)

\* The engine modes the claim calls recognized: production, fake, test, shared.
RecognizedModes == {"ModeNormal", "ModeFake", "ModeTest", "ModeShared"}

\* C18: with no authority-round scheme declared and an engine mode that is
\* not one of the recognized modes, the selector returns no engine handle and
\* construction does not go on past the selection.
C18_UnrecognizedModeFailsFast ==
    (~env.clique /\ config0.PowMode \notin RecognizedModes) =>
        /\ engine = "none"
        /\ "engine" \notin Range(newLog)
        /\ newResult # "ok"

C20_Common ==
    /\ env.genesis = "compat" => newResult # "err_genesis"
    /\ (env.genesis = "compat" /\ newPc \notin {"new_sync", "new_price", "new_cache",
            "new_opendb", "new_genesis", "new_struct", "new_version", "new_chain",
            "new_rewind", "done"}) =>
          "rewind" \in Range(newLog)
    /\ (env.genesis = "compat" /\ newResult = "ok") => "rewind" \in Range(newLog)
    /\ "rewind" \in Range(newLog) =>
          /\ env.genesis = "compat"
          /\ Precedes(newLog, "blockchain", "rewind")
          /\ Precedes(newLog, "rewind", "writeChainConfig")
          /\ "writeChainConfig" \in Range(newLog)
    /\ env.genesis = "compat" =>
          /\ Precedes(newLog, "writeChainConfig", "bloomIndexer.Start")
          /\ Precedes(newLog, "writeChainConfig", "txPool")
          /\ Precedes(newLog, "writeChainConfig", "protocolManager")
    /\ env.genesis = "other" =>
          /\ newResult \notin {"none", "ok"} => engine = "none"
          /\ newResult # "ok"
          /\ Range(newLog) \cap {"engine", "blockchain"} = {}
          /\ (newPc = "done" /\ dbOpen) => newResult = "err_genesis"

\* C20 as stated: a compatibility mismatch never aborts construction; the
\* rewind and the persisting of the new configuration come after the chain is
\* built and before the bloom builder, the pool and the protocol layer are
\* created; every other genesis error aborts before an engine or chain exists.
C20_RewindBeforeBloomBuilderCreated ==
    /\ C20_Common
    /\ env.genesis = "compat" => Precedes(newLog, "writeChainConfig", "bloomIndexer")

\* C20, amended: as stated, except that the bloom builder is created with the
\* service object before the chain is built; the rewind and the persisting
\* of the new configuration come before the bloom builder is started and
\* before the pool and the protocol layer are created.
C20_RewindBeforeBloomBuilderStarted ==
    /\ C20_Common
    /\ env.genesis = "compat" => Precedes(newLog, "bloomIndexer", "blockchain")

\* A construction with a compatibility mismatch succeeded, having rewound
\* right after the chain was built.
C20_Witness ==
    /\ newResult = "ok"
    /\ env.genesis = "compat"
    /\ "rewind" \in Range(newLog)
    /\ Precedes(newLog, "rewind", "txPool")

\* A SetBHEerbase call is in progress.
SetInFlight == \E p \in Procs : op[p] = "SetBHEerbase" /\ pc[p] # "idle"

\* Every SetBHEerbase call made so far has returned, and there was one.
SetsReturned ==
    /\ \A p \in Procs : pc[p] = "idle"
    /\ \E p \in Procs : op[p] = "SetBHEerbase" /\ ret[p] = "nil"

\* C21: while no SetBHEerbase call is in progress (every one made has
\* returned and no new one is being made), a stored non-zero mining address
\* stays as it is: no step of a concurrent BHEerbase call overwrites it.
C21_ExplicitAddressKept ==
    [][(~SetInFlight /\ ~SetInFlight' /\ BHEerbase # ZeroAddr) => BHEerbase' = BHEerbase]_vars

\* C22: once every SetBHEerbase call has returned, the address stored in the
\* service is the address the miner holds.
C22_ServiceAndMinerAgree ==
    SetsReturned => BHEerbase = coinbase

\* What binding the signer leaves in a call's effects under the engine at hand.
SignerEffect == IF IsClique(engine) THEN {"signer"} ELSE {}

\* Where a StartMining call stands, against what it has done so far.
StartMiningOrder(p) ==
    /\ pc[p] \in {"sm_threads", "sm_check", "sm_price"} => effects[p] = {}
    /\ pc[p] \in {"eb_read", "eb_lookup", "eb_write", "sm_auth"} =>
          /\ didInit[p]
          /\ poolGasPrice = gasPrice
          /\ effects[p] = {}
    /\ pc[p] = "sm_auth" => eb[p] # ZeroAddr
    /\ pc[p] = "sm_accept" =>
          /\ poolGasPrice = gasPrice
          /\ eb[p] # ZeroAddr
          /\ effects[p] = SignerEffect
    /\ pc[p] = "sm_go" =>
          /\ effects[p] = SignerEffect \cup {"acceptTxs"}
          /\ acceptTxs = 1
          /\ IsClique(engine) => signer # ZeroAddr
    /\ "loop" \in effects[p] =>
          /\ effects[p] = SignerEffect \cup {"acceptTxs", "loop"}
          /\ pc[p] = "idle" /\ ret[p] = "nil" /\ didInit[p]
    /\ (pc[p] = "idle" /\ ret[p] = "nil" /\ didInit[p]) => "loop" \in effects[p]

\* The step with which caller p launches the loop.
Launches(p) == "loop" \notin effects[p] /\ "loop" \in effects'[p]

\* C23: a StartMining call that found the service not running sets the pool
\* price to the price floor, then resolves the address, then binds the signer
\* (authority-round engine), then sets the accept-flag, then launches the loop
\* with the address it resolved; the launch is the call's last step and the
\* call returns with it, the loop not having run.
C23_StartMiningOrder ==
    /\ [](\A p \in Procs : op[p] = "StartMining" => StartMiningOrder(p))
    /\ [][\A p \in Procs :
            Launches(p) =>
               /\ pc[p] = "sm_go" /\ pc'[p] = "idle" /\ ret'[p] = "nil"
               /\ starting' = Append(starting, eb[p])
               /\ mining' = mining /\ coinbase' = coinbase]_vars

\* Under the authority-round engine a call bound its address as signer, set
\* the flag, launched the loop and returned before the loop ran.
C23_Witness ==
    \E p \in Procs :
        /\ op[p] = "StartMining" /\ pc[p] = "idle" /\ ret[p] = "nil"
        /\ effects[p] = {"signer", "acceptTxs", "loop"}
        /\ IsClique(engine) /\ signer = eb[p] /\ acceptTxs = 1
        /\ poolGasPrice = gasPrice
        /\ starting = <<eb[p]>> /\ ~mining

\* The thread count StartMining(n) hands to a threaded engine.
ThreadsFor(n) == IF n = 0 THEN 0 - 1 ELSE n

\* Caller p leaves position at with this step.
Leaves(p, at) == pc[p] = at /\ pc'[p] # at

\* C24: the first step of every StartMining(n) call, taken before anything
\* else of the call and whether or not the service is mining, sets the thread
\* count of a threaded engine to n, or to -1 when n is 0; the first step of
\* StopMining sets it to -1; under an engine without thread scaling the
\* thread count is never set.
C24_ThreadCount ==
    /\ [][\A p \in Procs :
            /\ (pc[p] = "idle" /\ pc'[p] # "idle" /\ op'[p] = "StartMining") =>
                  pc'[p] = "sm_threads"
            /\ (pc[p] = "idle" /\ pc'[p] # "idle" /\ op'[p] = "StopMining") =>
                  pc'[p] = "st_threads"
            /\ Leaves(p, "sm_threads") =>
                  /\ pc'[p] = "sm_check"
                  /\ threads' = (IF Threaded(engine) THEN ThreadsFor(arg[p]) ELSE threads)
            /\ Leaves(p, "st_threads") =>
                  /\ pc'[p] = "st_stop"
                  /\ threads' = (IF Threaded(engine) THEN 0 - 1 ELSE threads)]_vars
    /\ [](\A p \in Procs :
            pc[p] = "sm_threads" =>
               (op[p] = "StartMining" /\ ~didInit[p] /\ effects[p] = {} /\ ret[p] = "none"))
    /\ [](~Threaded(engine) => threads = InitThreads(engine))

\* A StartMining(1) call on a threaded engine failed for want of an address,
\* and the engine holds thread count 1.
C24_Witness ==
    \E p \in Procs :
        /\ Threaded(engine)
        /\ op[p] = "StartMining" /\ arg[p] = 1 /\ ret[p] = "err_BHEerbase"
        /\ threads = 1

\* Every worker Start launched has exited.
WorkersExited == \A i \in Workers : Launched(i) => workerPc[i] = "exited"

\* Stop has executed close(s.closeBloomHandler).
CloseSignalled == "closeBloomHandler" \in Range(stopLog)

\* C25: once Stop has raised the bloom close signal every worker launched by
\* Start eventually exits, wherever it was (polling the intake, or inside a
\* session's queue); no worker exits before the signal; and Stop is never
\* kept waiting: while it runs, its next step can always be taken.
C25_WorkersExitAfterClose ==
    /\ CloseSignalled ~> WorkersExited
    /\ [](\A i \in Workers : workerPc[i] = "exited" => closeBloomHandler = "closed")
    /\ [](lifePc \notin {"idle", "crashed"} => ENABLED NextLife)

\* Stop has returned while one worker is still inside a session's queue and
\* another is still polling the intake.
C25_Witness ==
    /\ lifePc = "idle" /\ stopResult = "nil" /\ closeBloomHandler = "closed"
    /\ bloomWorkers = BloomServiceThreads
    /\ \E i, j \in Workers :
          /\ workerPc[i] \in {"recv", "send"}
          /\ workerPc[j] = "poll"

\* The sum of the three cache budgets of a configuration.
TotalCache(c) == c.TrieCleanCache + c.TrieDirtyCache + c.SnapshotCache

\* C26: for a configuration with pruning disabled and a dirty budget > 0 the
\* redistribution leaves the sum of the three budgets as configured, and the
\* allowance handed to the protocol layer is that configured sum.
C26_BudgetConserved ==
    (Redistributed /\ config0.NoPruning /\ config0.TrieDirtyCache > 0) =>
        /\ TotalCache(config) = TotalCache(config0)
        /\ "protocolManager" \in Range(newLog) => cacheLimit = TotalCache(config0)

\* C27: with no mining address stored and an empty trusted-local set, a
\* query finds no block local and preserves none, whatever its author.
C27_NothingLocalWithoutAddress ==
    (query.asked /\ BHEerbase = ZeroAddr /\ locals = {}) =>
        /\ ~query.local
        /\ ~query.preserve

\* What New opens or starts and would have to close or stop again.
Closables == {"chainDb", "engine", "bloomIndexer", "bloomIndexer.Start", "blockchain", "txPool"}

\* C28: when New has returned an error, nothing it opened or started is
\* still open or running (New has no step that closes or stops anything, so
\* whatever it opened is open).
C28_FailedNewLeavesNothingOpen ==
    (newPc = "done" /\ newResult # "ok") =>
        /\ ~dbOpen
        /\ Range(newLog) \cap Closables = {}

====
